---- MODULE Spec2Model ----
(***************************************************************************)
(* Model of fable_library/task.py: TaskCompletionSource and the bridge     *)
(* functions (from_result, zero, get_result, start, run_synchronously)     *)
(* running on an asyncio event loop.                                       *)
(*                                                                         *)
(* The owning loop "L" runs on its own thread and executes the handles of  *)
(* its ready queue one at a time, in FIFO order.  Producers (on the loop's *)
(* thread or on a foreign thread) call SetResult / SetCancelled /          *)
(* SetException, which only append a closure to that queue.  Observers are *)
(* tasks of the loop that await get_task().  A consumer thread without a   *)
(* loop, or a coroutine of the loop, calls the blocking bridges.           *)
(***************************************************************************)
EXTENDS Integers, Sequences, FiniteSets, TLC

\* ------------------------------------------------------------------ bounds
MaxCalls == 3         \* terminal-transition calls made in one behaviour
MaxBridgeCalls == 2   \* get_result / run_synchronously calls in one behaviour
MaxCancels == 1       \* cancel() requests a consumer makes on a handle

Sources == {"s1"}              \* TaskCompletionSource instances
Observers == {"o1", "o2"}      \* tasks of the loop awaiting get_task()
BgTasks == {"t1", "t2"}         \* tasks created by start()
Values == {"None", "v1"}       \* results; "None" is Python's None
Errors == {"e1"}               \* exceptions bound by SetException / raised
Threads == {"loop", "foreign"} \* where a terminal-transition call is made
Callers == {"sync", "coro"}    \* sync: no running loop on the caller's
                               \* thread; coro: inside a coroutine of L

VARIABLES
  tcs,        \* tcs[s] = [loop, future]: the two slots of TaskCompletionSource
  ready,      \* loop L's queue of handles (BaseEventLoop._ready)
  loopState,  \* "running" or "closed"
  unhandled,  \* contexts passed to L's exception handler
  obs,        \* the observer tasks
  bg,         \* the tasks created by start()
  bridge,     \* the current / last call of a blocking bridge
  lastCall,   \* the last terminal-transition call: its thread, whether a
              \* transition had already been applied, what its caller got
  applied,    \* per source: what made the cell terminal (history)
  selecting,  \* L is blocked in its selector, waiting to be woken up
  policy,     \* the current-loop slot of the event loop policy for the main
              \* thread, which is the thread of the "sync" callers
  built,      \* the last call of the constructor and what it gave
  aw,         \* the awaitable made by get_awaiter and the task driving it
  firstCall,  \* per source, the first transition call the loop accepted
  nCalls, nBridge, nCancels

vars == <<tcs, ready, loopState, selecting, unhandled, obs, bg, bridge,
          lastCall, applied, policy, built, aw, firstCall, nCalls, nBridge,
          nCancels>>

\* ----------------------------------------------------------- asyncio.Future
NoOutcome == [kind |-> "none", val |-> "None"]
Returned(v) == [kind |-> "return", val |-> v]
Raised(e) == [kind |-> "raise", val |-> e]
Cancelled == [kind |-> "cancelled", val |-> "None"]

\* loop.create_future(): a pending cell without callbacks
create_future == [state |-> "PENDING", result |-> "None", exception |-> "None",
                  callbacks |-> <<>>]

FutureDone(f) == f.state # "PENDING"

\* Future.result(), which is what `await future` evaluates to once it is done
FutureResult(f) ==
  IF f.state = "CANCELLED" THEN Cancelled
  ELSE IF f.exception # "None" THEN Raised(f.exception)
  ELSE Returned(f.result)

\* Each of the three mutators gives [future, raised, changed]:
\* the cell afterwards, the exception the call raised ("None": none), and
\* whether the cell became terminal (its callbacks are then scheduled).
FutureSetResult(f, v) ==
  IF FutureDone(f)
  THEN [future |-> f, raised |-> "InvalidStateError", changed |-> FALSE]
  ELSE [future |-> [f EXCEPT !.state = "FINISHED", !.result = v,
                             !.callbacks = <<>>],
        raised |-> "None", changed |-> TRUE]

FutureSetException(f, e) ==
  IF FutureDone(f)
  THEN [future |-> f, raised |-> "InvalidStateError", changed |-> FALSE]
  ELSE [future |-> [f EXCEPT !.state = "FINISHED", !.exception = e,
                             !.callbacks = <<>>],
        raised |-> "None", changed |-> TRUE]

\* Future.cancel() returns False on a done future and raises nothing
FutureCancel(f) ==
  IF FutureDone(f)
  THEN [future |-> f, raised |-> "None", changed |-> FALSE]
  ELSE [future |-> [f EXCEPT !.state = "CANCELLED", !.callbacks = <<>>],
        raised |-> "None", changed |-> TRUE]

\* ------------------------------------------------------------------ handles
ActionHandle(op, s, arg) ==
  [kind |-> "action", op |-> op, src |-> s, arg |-> arg, who |-> "None"]
StepHandle(t) ==
  [kind |-> "step", op |-> "None", src |-> "None", arg |-> "None", who |-> t]
WakeupHandle(t) ==
  [kind |-> "wakeup", op |-> "None", src |-> "None", arg |-> "None",
   who |-> t]

RECURSIVE Wakeups_LIFO(_)
\* Callbacks scheduled last-added first
Wakeups_LIFO(cbs) ==
  IF cbs = <<>> THEN <<>>
  ELSE Wakeups_LIFO(Tail(cbs)) \o <<WakeupHandle(Head(cbs))>>

RECURSIVE Wakeups(_)
\* Future.__schedule_callbacks: call_soon for each callback, in the order
\* in which the callbacks were added
Wakeups(cbs) ==
  IF cbs = <<>> THEN <<>> ELSE <<WakeupHandle(Head(cbs))>> \o Wakeups(Tail(cbs))

\* ---------------------------------------------------------------- awaitables
FromResult(v) == [kind |-> "from_result", val |-> v, src |-> "None"]
Zero == [kind |-> "zero", val |-> "None", src |-> "None"]
Raiser(e) == [kind |-> "raiser", val |-> e, src |-> "None"]
TaskOf(s) == [kind |-> "task", val |-> "None", src |-> s]

Coroutines == {FromResult(v) : v \in Values} \cup {Zero}
                \cup {Raiser(e) : e \in Errors}
Awaitables == Coroutines \cup {TaskOf(s) : s \in Sources}
NoAwaitable == [kind |-> "none", val |-> "None", src |-> "None"]

\* TaskCompletionSource.get_task: asyncio.ensure_future of a Future returns
\* that very Future, so the handle is the cell of s itself
get_task(s) == TaskOf(s)

\* Running a coroutine that never suspends to its end
CoroutineOutcome(a) ==
  IF a.kind = "from_result" THEN Returned(a.val)
  ELSE IF a.kind = "zero" THEN Returned("None")
  ELSE Raised(a.val)

\* ------------------------------------------------------------ the event loop
ClosedLoopError == "RuntimeError: Event loop is closed"

\* loop.call_soon(callback) in the place of call_soon_threadsafe: the handle
\* is queued but a loop blocked in its selector is not woken up
call_soon_not_threadsafe(h) ==
  IF loopState = "closed"
  THEN [ready |-> ready, selecting |-> selecting,
        raised |-> ClosedLoopError]
  ELSE [ready |-> Append(ready, h), selecting |-> selecting,
        raised |-> "None"]

\* A hand-off that puts the handle in front of what is already queued
call_soon_threadsafe_front(h) ==
  IF loopState = "closed"
  THEN [ready |-> ready, selecting |-> selecting,
        raised |-> ClosedLoopError]
  ELSE [ready |-> <<h>> \o ready, selecting |-> FALSE, raised |-> "None"]

\* A hand-off that does not look whether the loop is closed
call_soon_threadsafe_unchecked(h) ==
  [ready |-> Append(ready, h), selecting |-> FALSE, raised |-> "None"]

\* loop.call_soon_threadsafe(callback): refuses on a closed loop, otherwise
\* appends the handle to the ready queue and wakes the loop up if it is
\* blocked in its selector
call_soon_threadsafe(h) ==
  IF loopState = "closed"
  THEN [ready |-> ready, selecting |-> selecting,
        raised |-> ClosedLoopError]
  ELSE [ready |-> Append(ready, h), selecting |-> FALSE, raised |-> "None"]

\* Variants of the closures with a slip in them, used to show that the
\* properties below depend on what the closures do
SetResultAction_DropsValue(f, value) == FutureSetResult(f, "None")
SetCancelledAction_AsFailure(f) == FutureSetException(f, "CancelledError")
SetExceptionAction_Overwrites(f, exception) ==
  [future |-> [f EXCEPT !.state = "FINISHED", !.result = "None",
                        !.exception = exception, !.callbacks = <<>>],
   raised |-> "None", changed |-> ~FutureDone(f)]

\* The closures `action` of the three transition methods
SetResultAction(f, value) == FutureSetResult(f, value)
SetCancelledAction(f) == FutureCancel(f)
SetExceptionAction(f, exception) == FutureSetException(f, exception)

ActionEffect(h, f) ==
  IF h.op = "SetResult" THEN SetResultAction(f, h.arg)
  ELSE IF h.op = "SetCancelled" THEN SetCancelledAction(f)
  ELSE SetExceptionAction(f, h.arg)

NotApplied == [op |-> "None", arg |-> "None", by |-> "None"]

CallbackError(e) == [message |-> "Exception in callback", exception |-> e]
NeverRetrieved(e) ==
  [message |-> "Task exception was never retrieved", exception |-> e]

IdleBridge ==
  [pc |-> "idle", fn |-> "None", arg |-> NoAwaitable, caller |-> "None",
   loop |-> "None", drove |-> FALSE, outcome |-> NoOutcome]
NoCall ==
  [thr |-> "None", afterTransition |-> FALSE, outcome |-> NoOutcome]
NewObserver ==
  [pc |-> "new", src |-> "None", suspended |-> FALSE, regNo |-> 0,
   outcome |-> NoOutcome]
UnusedTask ==
  [pc |-> "unused", arg |-> NoAwaitable, caller |-> "None",
   callOutcome |-> NoOutcome, result |-> NoOutcome]

NoFirstCall == [op |-> "None", arg |-> "None"]

NoAwaiter ==
  [pc |-> "new", arg |-> NoAwaitable, inner |-> "none",
   innerResult |-> NoOutcome, outcome |-> NoOutcome]

\* TaskCompletionSource.__init__ on the thread of the running loop L
NewSource == [loop |-> "L", future |-> create_future]

\* ------------------------------------------------------------- construction
\* Where the constructor is called: "coro" inside a coroutine of the running
\* loop L, "sync" on the main thread without a running loop, "worker" on
\* another thread that has no loop
Contexts == {"coro", "sync", "worker"}

\* The main thread's policy before anything set a loop for it
FreshPolicy == [loop |-> "None", setCalled |-> FALSE]
NoLoopError == "RuntimeError: There is no current event loop"
\* No cell: the constructor was not called or did not get to create one
NoFuture == [state |-> "ABSENT", result |-> "None", exception |-> "None",
             callbacks |-> <<>>]
NotBuilt ==
  [ctx |-> "None", outcome |-> NoOutcome, loop |-> "None", future |-> NoFuture]

\* asyncio.get_event_loop(): the running loop of the thread if there is one;
\* otherwise the loop set for the thread; otherwise, on the main thread and
\* as long as set_event_loop was never called, a new loop "P" that is set
\* for the thread and is not running; otherwise RuntimeError
get_event_loop(ctx) ==
  IF ctx = "coro" THEN [loop |-> "L", raised |-> "None", policy |-> policy]
  ELSE IF ctx = "sync" /\ policy.loop # "None"
       THEN [loop |-> policy.loop, raised |-> "None", policy |-> policy]
  ELSE IF ctx = "sync" /\ ~policy.setCalled
       THEN [loop |-> "P", raised |-> "None",
             policy |-> [loop |-> "P", setCalled |-> TRUE]]
  ELSE [loop |-> "None", raised |-> NoLoopError, policy |-> policy]

\* TaskCompletionSource(): self.loop = asyncio.get_event_loop(), then
\* self.future = self.loop.create_future()
Construct(ctx) ==
  /\ ctx = "coro" => loopState = "running"
  /\ LET r == get_event_loop(ctx)
     IN /\ policy' = r.policy
        /\ built' = IF r.raised # "None"
                     THEN [ctx |-> ctx, outcome |-> Raised(r.raised),
                           loop |-> "None", future |-> NoFuture]
                     ELSE [ctx |-> ctx, outcome |-> Returned("None"),
                           loop |-> r.loop, future |-> create_future]
  /\ UNCHANGED <<firstCall, aw, tcs, ready, loopState, selecting, unhandled, obs, bg, bridge,
                 lastCall, applied, nCalls, nBridge, nCancels>>

Init ==
  /\ tcs = [s \in Sources |-> NewSource]
  /\ ready = <<>>
  /\ loopState = "running"
  /\ selecting = FALSE
  /\ unhandled = {}
  /\ obs = [o \in Observers |-> NewObserver]
  /\ bg = [t \in BgTasks |-> UnusedTask]
  /\ bridge = IdleBridge
  /\ lastCall = NoCall
  /\ applied = [s \in Sources |-> NotApplied]
  /\ policy = FreshPolicy
  /\ built = NotBuilt
  /\ aw = NoAwaiter
  /\ firstCall = [s \in Sources |-> NoFirstCall]
  /\ nCalls = 0
  /\ nBridge = 0
  /\ nCancels = 0

\* --------------------------------------------------- terminal-transition calls
\* A call that runs its closure on the calling thread as well
CellAfterCall_Direct(h, f) == ActionEffect(h, f).future

\* The cell when a call returns: the body of the call only defines the
\* closure and hands it over, no statement of it touches self.future
CellAfterCall(h, f) == f

\* The body shared by SetResult, SetCancelled and SetException: hand the
\* closure to the owning loop and return; a refusal of the loop is raised
TransitionCall(op, s, arg, thr) ==
  LET r == call_soon_threadsafe(ActionHandle(op, s, arg)) IN
  /\ nCalls < MaxCalls
  /\ tcs' = [tcs EXCEPT ![s].future =
                          CellAfterCall(ActionHandle(op, s, arg), @)]
  /\ nCalls' = nCalls + 1
  /\ ready' = r.ready
  \* a caller on L's own thread runs in a step of L: L is not blocked
  /\ selecting' = IF thr = "loop" THEN FALSE ELSE r.selecting
  /\ lastCall' = [thr |-> thr,
                  afterTransition |-> applied[s].by = "producer",
                  outcome |-> IF r.raised = "None" THEN Returned("None")
                              ELSE Raised(r.raised)]
  /\ firstCall' = IF r.raised = "None" /\ firstCall[s] = NoFirstCall
                   THEN [firstCall EXCEPT ![s] = [op |-> op, arg |-> arg]]
                   ELSE firstCall
  /\ UNCHANGED <<aw, policy, built, loopState, unhandled, obs, bg, bridge,
                 applied, nBridge, nCancels>>

SetResult(s, value, thr) == TransitionCall("SetResult", s, value, thr)
SetCancelled(s, thr) == TransitionCall("SetCancelled", s, "None", thr)
SetException(s, exception, thr) ==
  TransitionCall("SetException", s, exception, thr)

\* -------------------------------------------------------------- observers
\* A coroutine of L creates a task whose body is `await source.get_task()`:
\* asyncio.create_task puts the task's first step on the ready queue
SpawnObserver(o, s) ==
  /\ loopState = "running"
  /\ obs[o].pc = "new"
  /\ obs' = [obs EXCEPT ![o] = [@ EXCEPT !.pc = "scheduled", !.src = s]]
  /\ ready' = Append(ready, StepHandle(o))
  /\ selecting' = FALSE
  /\ UNCHANGED <<firstCall, aw, policy, built, tcs, loopState, unhandled, bg, bridge, lastCall, applied,
                 nCalls, nBridge, nCancels>>

\* What a task gets from `await handle` when it reaches it: the result of a
\* done cell at once, otherwise it is suspended as a callback of the cell
AwaitNow(f) == IF FutureDone(f) THEN FutureResult(f) ELSE NoOutcome

\* --------------------------------------------------------- steps of the loop
LoopHead == Head(ready)
LoopCanRun == loopState = "running" /\ ~selecting /\ ready # <<>>

\* A loop that lets the exception of a callback end its run
LoopAfterCallback_Propagates(raised) ==
  IF raised = "None" THEN loopState ELSE "closed"

\* What the loop does after the closure it was handed returned or raised:
\* in both cases it goes on with the next handle
LoopAfterCallback(raised) == loopState

\* Handle._run of a transition closure: the closure mutates the cell; an
\* exception it raises goes to the loop's exception handler, the loop goes on
RunAction ==
  /\ LoopCanRun
  /\ LoopHead.kind = "action"
  /\ LET h == LoopHead
         s == h.src
         f == tcs[s].future
         r == ActionEffect(h, f)
     IN /\ tcs' = [tcs EXCEPT ![s].future = r.future]
        /\ ready' = Tail(ready) \o
                      (IF r.changed THEN Wakeups(f.callbacks) ELSE <<>>)
        /\ unhandled' = IF r.raised = "None" THEN unhandled
                        ELSE unhandled \cup {CallbackError(r.raised)}
        /\ loopState' = LoopAfterCallback(r.raised)
        /\ applied' = IF r.changed
                      THEN [applied EXCEPT ![s] =
                              [op |-> h.op, arg |-> h.arg,
                               by |-> "producer"]]
                      ELSE applied
  /\ UNCHANGED <<firstCall, aw, policy, built, selecting, obs, bg, bridge,
                 lastCall, nCalls, nBridge, nCancels>>

\* First step of an observer task: it evaluates get_task() and awaits it
RunObserverStep ==
  /\ LoopCanRun
  /\ LoopHead.kind = "step"
  /\ LoopHead.who \in Observers
  /\ LET o == LoopHead.who
         s == get_task(obs[o].src).src
         f == tcs[s].future
     IN IF FutureDone(f)
        THEN /\ obs' = [obs EXCEPT ![o] = [@ EXCEPT !.pc = "done",
                                             !.outcome = AwaitNow(f)]]
             /\ tcs' = tcs
        ELSE /\ obs' = [obs EXCEPT ![o] = [@ EXCEPT !.pc = "awaiting",
                                             !.suspended = TRUE,
                                             !.regNo = Len(f.callbacks) + 1]]
             /\ tcs' = [tcs EXCEPT ![s].future.callbacks = Append(@, o)]
  /\ ready' = Tail(ready)
  /\ UNCHANGED <<firstCall, aw, policy, built, selecting, loopState, unhandled, bg, bridge, lastCall, applied, nCalls,
                 nBridge, nCancels>>

\* Task.__wakeup of a suspended observer: the await evaluates to the result
\* of the cell
RunWakeup ==
  /\ LoopCanRun
  /\ LoopHead.kind = "wakeup"
  /\ LoopHead.who \in Observers
  /\ LET o == LoopHead.who
         s == get_task(obs[o].src).src
     IN obs' = [obs EXCEPT ![o] = [@ EXCEPT !.pc = "done",
                                     !.outcome = FutureResult(tcs[s].future)]]
  /\ ready' = Tail(ready)
  /\ UNCHANGED <<firstCall, aw, policy, built, selecting, tcs, loopState, unhandled, bg, bridge, lastCall, applied,
                 nCalls, nBridge, nCancels>>

\* The task created by start() runs `return await task` to its end; what the
\* coroutine raises is stored in the task, nobody awaits the task
RunnerOfStart(a) == CoroutineOutcome(a)

RunBgStep ==
  /\ LoopCanRun
  /\ LoopHead.kind = "step"
  /\ LoopHead.who \in BgTasks
  /\ LET t == LoopHead.who
     IN bg' = [bg EXCEPT ![t] = [@ EXCEPT !.pc = "done",
                                   !.result = RunnerOfStart(bg[t].arg)]]
  /\ ready' = Tail(ready)
  /\ UNCHANGED <<firstCall, aw, policy, built, selecting, tcs, loopState, unhandled, obs, bridge, lastCall, applied,
                 nCalls, nBridge, nCancels>>

\* The steps L takes for completion sources and their observers
LoopStep == RunAction \/ RunObserverStep \/ RunWakeup

\* -------------------------------------------------------------------- start
\* A caller "coro" runs inside a coroutine of L, so L is the running loop of
\* its thread; a caller "sync" has a running loop on its thread only if an
\* asyncio.run of that thread left one behind
HasRunningLoop(caller) == caller = "coro" \/ bridge.loop # "None"

\* start with the runner awaited in place: what the awaitable raises reaches
\* the caller of start
start_awaits_in_place(a, caller) ==
  IF HasRunningLoop(caller)
  THEN [scheduled |-> TRUE,
        callOutcome |-> IF a.kind = "raiser" THEN Raised(a.val)
                        ELSE Returned("None")]
  ELSE [scheduled |-> FALSE,
        callOutcome |-> Raised("RuntimeError: no running event loop")]

\* start that schedules on whatever loop it can get instead of requiring a
\* running one
start_without_running_loop(a, caller) ==
  [scheduled |-> TRUE, callOutcome |-> Returned("None")]

\* start(task): asyncio.create_task(runner()) schedules the runner on the
\* running loop and start returns None; without a running loop create_task
\* raises and nothing is scheduled
start(a, caller) ==
  IF HasRunningLoop(caller)
  THEN [scheduled |-> TRUE, callOutcome |-> Returned("None")]
  ELSE [scheduled |-> FALSE,
        callOutcome |-> Raised("RuntimeError: no running event loop")]

Start(t, a, caller) ==
  /\ bg[t].pc = "unused"
  /\ HasRunningLoop(caller) => loopState = "running"
  /\ LET r == start(a, caller)
     IN /\ bg' = [bg EXCEPT ![t] =
                    [pc |-> IF r.scheduled THEN "scheduled" ELSE "rejected",
                     arg |-> a, caller |-> caller,
                     callOutcome |-> r.callOutcome, result |-> NoOutcome]]
        /\ ready' = IF r.scheduled THEN Append(ready, StepHandle(t))
                    ELSE ready
        /\ selecting' = IF HasRunningLoop(caller) THEN FALSE ELSE selecting
  /\ UNCHANGED <<firstCall, aw, policy, built, tcs, loopState, unhandled, obs, bridge, lastCall, applied,
                 nCalls, nBridge, nCancels>>

\* Task.__del__ of a finished task nobody holds: an exception that was never
\* retrieved is passed to the loop's exception handler
FinalizeBg(t) ==
  /\ bg[t].pc = "done"
  /\ bg' = [bg EXCEPT ![t].pc = "finalized"]
  /\ unhandled' = IF bg[t].result.kind = "raise"
                  THEN unhandled \cup {NeverRetrieved(bg[t].result.val)}
                  ELSE unhandled
  /\ UNCHANGED <<firstCall, aw, policy, built, selecting, tcs, ready, loopState, obs, bridge, lastCall, applied,
                 nCalls, nBridge, nCancels>>

\* ---------------------------------------------------------- blocking bridges
RunningLoopError ==
  "RuntimeError: asyncio.run() cannot be called from a running event loop"

\* A bridge that starts a loop of its own whatever the calling thread runs
asyncio_run_nested(caller) == [loop |-> "B", raised |-> "None"]

\* asyncio.run(main): refused when the calling thread has a running loop,
\* otherwise a new loop "B" is created to run main
asyncio_run(caller) ==
  IF HasRunningLoop(caller)
  THEN [loop |-> "None", raised |-> RunningLoopError]
  ELSE [loop |-> "B", raised |-> "None"]

BridgeCall(fn, a, caller) ==
  /\ nBridge < MaxBridgeCalls
  /\ bridge.pc # "running"
  /\ HasRunningLoop(caller) => loopState = "running"
  /\ nBridge' = nBridge + 1
  /\ LET r == asyncio_run(caller)
     IN bridge' = [pc |-> IF r.raised = "None" THEN "running" ELSE "done",
                   fn |-> fn, arg |-> a, caller |-> caller, loop |-> r.loop,
                   drove |-> FALSE,
                   outcome |-> IF r.raised = "None" THEN NoOutcome
                               ELSE Raised(r.raised)]
  /\ UNCHANGED <<firstCall, aw, policy, built, selecting, tcs, ready, loopState, unhandled, obs, bg, lastCall, applied,
                 nCalls, nCancels>>

DifferentLoopError ==
  "RuntimeError: Task got Future attached to a different loop"

\* runner() on the bridge's loop: `return await value`.  A coroutine is run
\* to its end.  A done Future gives its result without suspending; a pending
\* Future is yielded to the task, which refuses a Future of another loop.
RunnerOutcome(a, taskLoop) ==
  IF a.kind # "task" THEN CoroutineOutcome(a)
  ELSE IF FutureDone(tcs[a.src].future) THEN FutureResult(tcs[a.src].future)
  ELSE IF tcs[a.src].loop # taskLoop
       THEN Raised(DifferentLoopError)
  ELSE NoOutcome

\* get_result without its `return`
get_result_drops_value(o) == IF o.kind = "return" THEN Returned("None") ELSE o

\* run_synchronously with a handler around asyncio.run that swallows what
\* the awaitable raised
run_synchronously_swallows(o) == Returned("None")

\* get_result returns what asyncio.run returns
get_result(o) == o
\* run_synchronously drops the value of asyncio.run
run_synchronously(o) == IF o.kind = "return" THEN Returned("None") ELSE o

\* An asyncio.run that returns without closing and unsetting its loop
RunnerClose_Leaks ==
  [loop |-> "B", policy |-> [loop |-> "B", setCalled |-> TRUE]]

\* The end of asyncio.run, whether main returned or raised: its loop is
\* closed and the thread's current loop is set to None
RunnerClose ==
  [loop |-> "None", policy |-> [loop |-> "None", setCalled |-> TRUE]]

\* The bridge's loop runs the runner to its end, asyncio.run closes the loop
\* and the bridge returns or re-raises
BridgeRun ==
  /\ bridge.pc = "running"
  /\ LET o == RunnerOutcome(bridge.arg, bridge.loop)
     IN /\ o # NoOutcome
        /\ bridge' = [bridge EXCEPT
                        !.pc = "done", !.loop = RunnerClose.loop,
                        !.drove = TRUE,
                        !.outcome = IF bridge.fn = "get_result"
                                    THEN get_result(o)
                                    ELSE run_synchronously(o)]
        /\ policy' = IF bridge.caller = "sync" THEN RunnerClose.policy
                      ELSE policy
  /\ UNCHANGED <<firstCall, aw, built, selecting, tcs, ready, loopState, unhandled, obs, bg, lastCall, applied,
                 nCalls, nBridge, nCancels>>

\* -------------------------------------------------------------- get_awaiter
\* get_awaiter with ensure_future called outside the coroutine: the inner
\* awaitable is scheduled by the call itself
get_awaiter_eager(a) ==
  IF a.kind = "task" THEN [inner |-> "none", handles |-> <<>>]
  ELSE [inner |-> "scheduled", handles |-> <<StepHandle("inner")>>]

\* get_awaiter(value) returns the coroutine object get_value(), not started:
\* the call schedules nothing and does not touch value
get_awaiter(a) == [inner |-> "none", handles |-> <<>>]

\* A coroutine of L calls get_awaiter
GetAwaiter(a) ==
  /\ loopState = "running"
  /\ aw.pc = "new"
  /\ LET r == get_awaiter(a)
     IN /\ aw' = [aw EXCEPT !.pc = "created", !.arg = a, !.inner = r.inner]
        /\ ready' = ready \o r.handles
  /\ selecting' = FALSE
  /\ UNCHANGED <<firstCall, tcs, loopState, unhandled, obs, bg, bridge, lastCall,
                 applied, policy, built, nCalls, nBridge, nCancels>>

\* The coroutine hands the awaitable it got to asyncio.create_task
DriveAwaiter ==
  /\ loopState = "running"
  /\ aw.pc = "created"
  /\ aw' = [aw EXCEPT !.pc = "scheduled"]
  /\ ready' = Append(ready, StepHandle("aw"))
  /\ selecting' = FALSE
  /\ UNCHANGED <<firstCall, tcs, loopState, unhandled, obs, bg, bridge, lastCall,
                 applied, policy, built, nCalls, nBridge, nCancels>>

\* First step of get_value: `await asyncio.ensure_future(value)`.  For a
\* coroutine ensure_future creates a task of L, on which get_value suspends;
\* for the handle of a source it is the cell itself
RunAwaiterStep ==
  /\ LoopCanRun
  /\ LoopHead = StepHandle("aw")
  /\ LET a == aw.arg IN
     IF a.kind = "task"
     THEN LET f == tcs[a.src].future IN
          IF FutureDone(f)
          THEN /\ aw' = [aw EXCEPT !.pc = "done", !.outcome = AwaitNow(f)]
               /\ tcs' = tcs
               /\ ready' = Tail(ready)
          ELSE /\ aw' = [aw EXCEPT !.pc = "awaiting"]
               /\ tcs' = [tcs EXCEPT ![a.src].future.callbacks =
                                       Append(@, "aw")]
               /\ ready' = Tail(ready)
     ELSE /\ tcs' = tcs
          /\ IF aw.inner = "done"
             THEN /\ aw' = [aw EXCEPT !.pc = "done",
                                      !.outcome = aw.innerResult]
                  /\ ready' = Tail(ready)
             ELSE /\ aw' = [aw EXCEPT !.pc = "awaiting",
                                      !.inner = "scheduled"]
                  /\ ready' = IF aw.inner = "none"
                              THEN Append(Tail(ready), StepHandle("inner"))
                              ELSE Tail(ready)
  /\ UNCHANGED <<firstCall, selecting, loopState, unhandled, obs, bg, bridge, lastCall,
                 applied, policy, built, nCalls, nBridge, nCancels>>

\* The task ensure_future made runs the inner coroutine to its end and, being
\* done, schedules the wake-up of get_value
RunInnerStep ==
  /\ LoopCanRun
  /\ LoopHead = StepHandle("inner")
  /\ aw' = [aw EXCEPT !.inner = "done",
                      !.innerResult = CoroutineOutcome(aw.arg)]
  /\ ready' = Tail(ready) \o
                (IF aw.pc = "awaiting" THEN <<WakeupHandle("aw")>> ELSE <<>>)
  /\ UNCHANGED <<firstCall, selecting, tcs, loopState, unhandled, obs, bg, bridge,
                 lastCall, applied, policy, built, nCalls, nBridge, nCancels>>

\* get_value resumes with the result of what it awaited and returns it
RunAwaiterWakeup ==
  /\ LoopCanRun
  /\ LoopHead = WakeupHandle("aw")
  /\ aw' = [aw EXCEPT !.pc = "done",
                      !.outcome = IF aw.arg.kind = "task"
                                  THEN FutureResult(tcs[aw.arg.src].future)
                                  ELSE aw.innerResult]
  /\ ready' = Tail(ready)
  /\ UNCHANGED <<firstCall, selecting, tcs, loopState, unhandled, obs, bg, bridge,
                 lastCall, applied, policy, built, nCalls, nBridge, nCancels>>

\* --------------------------------------------------- consumer and environment
\* A consumer on L's thread calls cancel() on the handle get_task() gave it
HandleCancel(s) ==
  /\ loopState = "running"
  /\ nCancels < MaxCancels
  /\ nCancels' = nCancels + 1
  /\ selecting' = FALSE
  /\ LET h == get_task(s)
         f == tcs[h.src].future
         r == FutureCancel(f)
     IN /\ tcs' = [tcs EXCEPT ![h.src].future = r.future]
        /\ ready' = ready \o (IF r.changed THEN Wakeups(f.callbacks) ELSE <<>>)
        /\ applied' = IF r.changed
                      THEN [applied EXCEPT ![h.src] =
                              [op |-> "cancel", arg |-> "None",
                               by |-> "consumer"]]
                      ELSE applied
  /\ UNCHANGED <<firstCall, aw, policy, built, loopState, unhandled, obs, bg, bridge, lastCall, nCalls,
                 nBridge>>

\* With nothing ready, L blocks in its selector until it is woken up
LoopSleep ==
  /\ loopState = "running"
  /\ ready = <<>>
  /\ ~selecting
  /\ selecting' = TRUE
  /\ UNCHANGED <<firstCall, aw, policy, built, tcs, ready, loopState, unhandled, obs, bg, bridge, lastCall,
                 applied, nCalls, nBridge, nCancels>>

\* The owner of L shuts it down: loop.close() drops the queued handles
CloseLoop ==
  /\ loopState = "running"
  /\ loopState' = "closed"
  /\ ready' = <<>>
  /\ selecting' = FALSE
  /\ UNCHANGED <<firstCall, aw, policy, built, tcs, unhandled, obs, bg, bridge, lastCall, applied, nCalls,
                 nBridge, nCancels>>

\* ------------------------------------------------------------ specifications
Producer ==
  \E s \in Sources, thr \in Threads :
    \/ \E v \in Values : SetResult(s, v, thr)
    \/ SetCancelled(s, thr)
    \/ \E e \in Errors : SetException(s, e, thr)

Consumer ==
  \/ \E o \in Observers, s \in Sources : SpawnObserver(o, s)
  \/ \E s \in Sources : HandleCancel(s)

Bridges ==
  \/ \E fn \in {"get_result", "run_synchronously"}, a \in Awaitables,
        c \in Callers : BridgeCall(fn, a, c)
  \/ BridgeRun

Background ==
  \/ \E t \in BgTasks, a \in Coroutines, c \in Callers : Start(t, a, c)
  \/ \E t \in BgTasks : FinalizeBg(t)

\* The completion source with its producers and observers on the owning loop
Next == Producer \/ Consumer \/ LoopStep \/ CloseLoop

Spec == Init /\ [][Next]_vars

\* The blocking bridges, called while producers complete the sources on L
BridgeNext == Producer \/ RunAction \/ Bridges \/ CloseLoop

BridgeSpec == Init /\ [][BridgeNext]_vars

\* Fire-and-forget tasks next to other tasks of the loop, which suspend
StartNext ==
  \/ Background
  \/ \E o \in Observers, s \in Sources : SpawnObserver(o, s)
  \/ RunObserverStep
  \/ RunBgStep

StartSpec == Init /\ [][StartNext]_vars

\* A foreign producer and the observers of a loop that runs whatever is ready
\* and sleeps in its selector otherwise
LiveNext ==
  \/ Producer
  \/ \E o \in Observers, s \in Sources : SpawnObserver(o, s)
  \/ LoopStep
  \/ LoopSleep

LiveSpec == Init /\ [][LiveNext]_vars /\ WF_vars(LoopStep)

\* Two sources of the same loop, their producers on the loop's thread, an
\* observer of the one source and an observer of the other
TwoSources == {"s1", "s2"}

IsolationInit ==
  /\ tcs = [s \in TwoSources |-> NewSource]
  /\ applied = [s \in TwoSources |-> NotApplied]
  /\ firstCall = [s \in TwoSources |-> NoFirstCall]
  /\ ready = <<>>
  /\ loopState = "running"
  /\ selecting = FALSE
  /\ unhandled = {}
  /\ obs = [o \in Observers |-> NewObserver]
  /\ bg = [t \in BgTasks |-> UnusedTask]
  /\ bridge = IdleBridge
  /\ lastCall = NoCall
  /\ policy = FreshPolicy
  /\ built = NotBuilt
  /\ aw = NoAwaiter
  /\ nCalls = 0
  /\ nBridge = 0
  /\ nCancels = 0

IsolationNext ==
  \/ \E s \in TwoSources :
       \/ SetResult(s, "v1", "loop")
       \/ \E e \in Errors : SetException(s, e, "loop")
  \/ SpawnObserver("o1", "s1")
  \/ SpawnObserver("o2", "s2")
  \/ LoopStep

IsolationSpec ==
  IsolationInit /\ [][IsolationNext]_vars /\ WF_vars(LoopStep)

\* Construction in the three contexts, on a main thread that also calls the
\* blocking bridges
CtorNext ==
  \/ \E ctx \in Contexts : Construct(ctx)
  \/ Bridges
  \/ CloseLoop

CtorSpec == Init /\ [][CtorNext]_vars

\* get_awaiter on coroutines and on handles of sources that producers complete
AwaiterNext ==
  \/ \E a \in Awaitables : GetAwaiter(a)
  \/ DriveAwaiter
  \/ RunAwaiterStep
  \/ RunInnerStep
  \/ RunAwaiterWakeup
  \/ Producer
  \/ RunAction

AwaiterSpec == Init /\ [][AwaiterNext]_vars

\* ------------------------------------------------------------------ claims
(* What the transition recorded in `applied` makes an await evaluate to *)
TransitionOutcome(a) ==
  IF a.op = "SetResult" THEN Returned(a.arg)
  ELSE IF a.op = "SetException" THEN Raised(a.arg)
  ELSE Cancelled

DoneOn(o, s) == obs[o].pc = "done" /\ obs[o].src = s

\* C1: a terminal-transition call made on a source after an earlier
\* terminal-transition call has taken effect on its cell fails with an error
\* raised to the caller of that call.
C1_SecondCallRaises ==
  lastCall.afterTransition => lastCall.outcome.kind = "raise"

\* C2: once the future cell of a source is terminal, no step changes it:
\* its kind and its stored value or error stay what they were.
C2_TerminalIsFinal ==
  [][\A s \in Sources :
       FutureDone(tcs[s].future) => tcs'[s].future = tcs[s].future]_vars

\* C2 witness: a cell is terminal and a later transition closure was run
\* against it and rejected
C2_Witness ==
  \E s \in Sources :
    /\ FutureDone(tcs[s].future)
    /\ applied[s].by = "producer"
    /\ CallbackError("InvalidStateError") \in unhandled

\* C3: all observers of one source that have resumed got the same outcome,
\* and when a producer's transition made the cell terminal that outcome is
\* the one of that transition, whether they suspended or not.
C3_FanOutConsistency ==
  \A s \in Sources : \A o1, o2 \in Observers :
    (DoneOn(o1, s) /\ DoneOn(o2, s)) =>
      /\ obs[o1].outcome = obs[o2].outcome
      /\ applied[s].by = "producer" =>
            obs[o1].outcome = TransitionOutcome(applied[s])

\* C3 witness: one observer suspended before the transition, the other
\* awaited after it, and both got the value of SetResult
C3_Witness ==
  \E s \in Sources :
    /\ DoneOn("o1", s) /\ DoneOn("o2", s)
    /\ obs["o1"].suspended /\ ~obs["o2"].suspended
    /\ applied[s].op = "SetResult" /\ applied[s].arg = "v1"
    /\ obs["o2"].outcome = Returned("v1")

\* The handle of SetResult(v) on s, queued by a call from a foreign thread,
\* is the only transition closure in L's queue
ForeignSetResultQueued(s, v) ==
  /\ lastCall.thr = "foreign"
  /\ ready # <<>>
  /\ ready[Len(ready)] = ActionHandle("SetResult", s, v)
  /\ \A i \in 1..(Len(ready) - 1) : ready[i].kind # "action"

\* C4: when an observer is suspended on a pending source and SetResult(v)
\* is called from a foreign thread while L runs, the observer eventually
\* resumes with exactly v.
C4_ThreadSafeCompletion ==
  \A o \in Observers : \A s \in Sources : \A v \in Values :
    (/\ obs[o].pc = "awaiting" /\ obs[o].src = s
     /\ ~FutureDone(tcs[s].future)
     /\ ForeignSetResultQueued(s, v))
      ~> (obs[o].pc = "done" /\ obs[o].outcome = Returned(v))

\* C4 witness: the only call was a SetResult("v1") from a foreign thread and
\* an observer that had suspended has resumed with "v1"
C4_Witness ==
  /\ nCalls = 1 /\ lastCall.thr = "foreign"
  /\ obs["o1"].pc = "done" /\ obs["o1"].suspended
  /\ obs["o1"].outcome = Returned("v1")

\* C5: after SetCancelled made a pending cell terminal, every observer of
\* the source that has resumed got the cancellation signal, neither a value
\* nor an error.
C5_CancellationDistinct ==
  \A s \in Sources : \A o \in Observers :
    (DoneOn(o, s) /\ applied[s].op = "SetCancelled") =>
      obs[o].outcome = Cancelled

\* C5 witness: an observer suspended before SetCancelled and one that
\* awaited after it have both been cancelled
C5_Witness ==
  \E s \in Sources :
    /\ applied[s].op = "SetCancelled"
    /\ DoneOn("o1", s) /\ DoneOn("o2", s)
    /\ obs["o1"].suspended /\ ~obs["o2"].suspended
    /\ obs["o1"].outcome.kind = "cancelled"
    /\ obs["o2"].outcome.kind = "cancelled"

\* C6: called without a running loop, get_result(from_result(x)) returns x,
\* for a value and for None.
C6_RoundTrip ==
  (/\ bridge.pc = "done" /\ bridge.fn = "get_result"
   /\ bridge.caller = "sync" /\ bridge.arg.kind = "from_result")
    => bridge.outcome = Returned(bridge.arg.val)

\* C6 witness: get_result(from_result(None)) has returned None
C6_Witness ==
  /\ bridge.pc = "done" /\ bridge.fn = "get_result" /\ bridge.caller = "sync"
  /\ bridge.arg = FromResult("None") /\ bridge.drove
  /\ bridge.outcome = Returned("None")

\* C7: get_result or run_synchronously called inside a coroutine of a running
\* loop ends at once with the usage error: no loop of its own was started,
\* the awaitable was not driven and the call is never left waiting.
C7_ReentrancyRejected ==
  (bridge.caller = "coro") =>
    /\ bridge.pc = "done"
    /\ bridge.outcome = Raised(RunningLoopError)
    /\ bridge.loop = "None"
    /\ ~bridge.drove

\* C7 witness: run_synchronously of the handle of a pending source was
\* called from a coroutine and was rejected
C7_Witness ==
  /\ bridge.caller = "coro" /\ bridge.fn = "run_synchronously"
  /\ bridge.arg.kind = "task" /\ ~FutureDone(tcs[bridge.arg.src].future)
  /\ bridge.outcome = Raised(RunningLoopError)

\* A task that start created inside a running loop
C8_StartedInLoop(t) == bg[t].caller = "coro"

\* C8: start called inside a running loop returns None to its caller whatever
\* the awaitable does later and runs nothing before it returns; the step in
\* which the awaitable raises leaves the loop running with the rest of its
\* queue and reports nothing; the error reaches the loop's exception handler,
\* and only when the task is finalized.
C8_FailureIsolation ==
  /\ [](\A t \in BgTasks : C8_StartedInLoop(t) =>
          /\ bg[t].callOutcome = Returned("None")
          /\ bg[t].pc = "scheduled" => bg[t].result = NoOutcome
          /\ (\E e \in Errors : bg[t].result = Raised(e)) =>
                (NeverRetrieved(bg[t].result.val) \in unhandled
                   <=> \E u \in BgTasks : /\ bg[u].pc = "finalized"
                                          /\ bg[u].result = bg[t].result))
  /\ [][\A t \in BgTasks :
          (bg[t].pc = "scheduled" /\ bg'[t].pc = "done"
             /\ bg'[t].result.kind = "raise")
          => /\ loopState' = "running"
             /\ ready' = Tail(ready)
             /\ unhandled' = unhandled
             /\ bg'[t].callOutcome = bg[t].callOutcome]_vars

\* C8 witness: a started awaitable raised and was reported to the exception
\* handler, start had returned None, and the other started task and an
\* observer task of the same loop have run
C8_Witness ==
  /\ bg["t1"].caller = "coro" /\ bg["t1"].callOutcome = Returned("None")
  /\ bg["t1"].result = Raised("e1") /\ bg["t1"].pc = "finalized"
  /\ NeverRetrieved("e1") \in unhandled
  /\ bg["t2"].caller = "coro" /\ bg["t2"].result = Returned("v1")
  /\ obs["o1"].pc = "awaiting"
  /\ loopState = "running"

\* C9: get_result of the handle of a source, called without a running loop,
\* ends only with the outcome of the terminal transition of that source:
\* it waits for the transition and returns its value or re-raises it.
C9_BridgeWaitsForProducer ==
  (/\ bridge.pc = "done" /\ bridge.fn = "get_result"
   /\ bridge.caller = "sync" /\ bridge.arg.kind = "task")
    => /\ FutureDone(tcs[bridge.arg.src].future)
       /\ bridge.outcome = FutureResult(tcs[bridge.arg.src].future)

\* C10: the cell of a source is cancelled only by the producer's
\* SetCancelled; nothing a consumer does with a handle changes the cell.
C10_OnlyProducerCancels ==
  \A s \in Sources :
    tcs[s].future.state = "CANCELLED" =>
      (applied[s].by = "producer" /\ applied[s].op = "SetCancelled")

\* C11: a terminal-transition call made after the owning loop was shut down
\* raises the loop's scheduling error, an ordinary exception, to its caller
\* and leaves the future cell and the loop's queue as they were.
C11_CallAfterShutdown ==
  [][(nCalls' # nCalls /\ loopState = "closed")
       => /\ lastCall'.outcome = Raised(ClosedLoopError)
          /\ tcs' = tcs
          /\ ready' = ready
          /\ applied' = applied]_vars

\* C11 witness: the loop is closed, the last call was refused with the
\* scheduling error and the cell is still pending
C11_Witness ==
  /\ loopState = "closed"
  /\ lastCall.outcome = Raised(ClosedLoopError)
  /\ \E s \in Sources : ~FutureDone(tcs[s].future)

\* C12: constructing a source where no loop is running fails with an error
\* and creates no future cell; constructing it inside the running loop gives
\* a source whose cell is pending and bound to that loop.
C12_ConstructionNeedsLoop ==
  /\ built.ctx \in {"sync", "worker"} =>
       (built.outcome.kind = "raise" /\ built.future = NoFuture)
  /\ built.ctx = "coro" =>
       (built.loop = "L" /\ built.future = create_future)

\* C13: start called where no loop is running raises to its caller and the
\* awaitable is neither scheduled nor run.
C13_StartNeedsLoop ==
  \A t \in BgTasks :
    bg[t].caller = "sync" =>
      /\ bg[t].callOutcome = Raised("RuntimeError: no running event loop")
      /\ bg[t].pc = "rejected"
      /\ bg[t].result = NoOutcome
      /\ \A i \in 1..Len(ready) : ready[i] # StepHandle(t)

\* C13 witness: start of a raising awaitable was refused on a thread without
\* a loop while the other task, started inside the loop, has run
C13_Witness ==
  /\ bg["t1"].caller = "sync" /\ bg["t1"].arg = Raiser("e1")
  /\ bg["t1"].callOutcome.kind = "raise"
  /\ bg["t2"].caller = "coro" /\ bg["t2"].pc = "done"

\* What awaiting the awaitable a gives once it has completed
DirectOutcome(a) ==
  IF a.kind = "task" THEN FutureResult(tcs[a.src].future)
  ELSE IF a.kind = "raiser" THEN Raised(a.val)
  ELSE IF a.kind = "zero" THEN Returned("None")
  ELSE Returned(a.val)

\* C14: a bridge called without a running loop on an awaitable that completes
\* re-raises its error or cancellation; on a value get_result returns it and
\* run_synchronously returns None.  (A bridge that ended on the handle of a
\* source otherwise than by the loop mismatch of a pending cell found the
\* cell terminal.)
C14_BridgePropagation ==
  (bridge.pc = "done" /\ bridge.caller = "sync"
     /\ bridge.outcome # Raised(DifferentLoopError))
    => LET a == bridge.arg
           exp == DirectOutcome(a)
       IN /\ a.kind = "task" => FutureDone(tcs[a.src].future)
          /\ exp.kind # "return" => bridge.outcome = exp
          /\ exp.kind = "return" =>
               bridge.outcome = IF bridge.fn = "get_result"
                                THEN Returned(exp.val)
                                ELSE Returned("None")

\* C14 witness: run_synchronously re-raised the error bound by SetException
C14_Witness ==
  /\ bridge.pc = "done" /\ bridge.caller = "sync"
  /\ bridge.fn = "run_synchronously" /\ bridge.arg.kind = "task"
  /\ applied[bridge.arg.src].op = "SetException"
  /\ bridge.outcome = Raised("e1")

\* C15: get_awaiter(a) itself schedules and drives nothing; once the
\* awaitable it returned has been driven to its end on the loop, its outcome
\* is the outcome of awaiting a directly.
C15_AwaiterPreservesOutcome ==
  /\ aw.pc = "created" =>
       /\ aw.inner = "none"
       /\ \A i \in 1..Len(ready) : ready[i].who \notin {"aw", "inner"}
  /\ aw.pc = "done" => aw.outcome = DirectOutcome(aw.arg)

\* C15 witness: get_awaiter of the handle of a pending source was driven,
\* suspended, and resumed with the error bound by SetException
C15_Witness ==
  /\ aw.pc = "done" /\ aw.arg.kind = "task"
  /\ applied[aw.arg.src].op = "SetException"
  /\ aw.outcome = Raised("e1")
  /\ lastCall.afterTransition = FALSE /\ nCalls = 1

\* C16: a SetResult/SetCancelled/SetException call, on whatever thread,
\* leaves the cell as it was and, when the loop accepts it, only appends its
\* closure to the loop's queue; every step in which the state of a cell
\* changes is a step on L's own thread: L running the closure at the head of
\* its queue, or a coroutine of L cancelling the handle.
C16_MutationOnlyOnLoop ==
  [][/\ nCalls' # nCalls =>
          /\ tcs' = tcs /\ applied' = applied
          /\ lastCall'.outcome = Returned("None") =>
               /\ Len(ready') = Len(ready) + 1
               /\ SubSeq(ready', 1, Len(ready)) = ready
               /\ ready'[Len(ready')].kind = "action"
     /\ \A s \in Sources :
          tcs'[s].future.state # tcs[s].future.state =>
            /\ nCalls' = nCalls
            /\ loopState = "running" /\ ~selecting
            /\ \/ /\ ready # <<>> /\ LoopHead.kind = "action"
                  /\ LoopHead.src = s
                  /\ SubSeq(ready', 1, Len(ready) - 1) = Tail(ready)
               \/ nCancels' # nCancels]_vars

\* C16 witness: the only call was a SetCancelled on a foreign thread, and the
\* cell was cancelled by its closure when L ran it
C16_Witness ==
  /\ nCalls = 1 /\ lastCall.thr = "foreign"
  /\ lastCall.outcome = Returned("None")
  /\ applied["s1"] = [op |-> "SetCancelled", arg |-> "None", by |-> "producer"]
  /\ tcs["s1"].future.state = "CANCELLED"

\* C17: a get_result or run_synchronously call from a synchronous context
\* always gets a loop of its own to run on, whatever calls came before it,
\* and when it ends, by a return or by re-raising, that loop is gone: no
\* loop is running or current in the calling context.
C17_OneShotLoop ==
  [][/\ (nBridge' # nBridge /\ bridge'.caller = "sync") =>
          (bridge'.pc = "running" /\ bridge'.loop = "B")
     /\ (bridge.pc = "running" /\ bridge'.pc = "done") =>
          (bridge'.loop = "None" /\ policy'.loop = "None")]_vars

\* C17 witness: a second bridge call from the synchronous context is running
\* on its own loop after an earlier one from that context ended by raising
\* or returning
C17_Witness ==
  /\ nBridge = 2 /\ bridge.caller = "sync"
  /\ bridge.pc = "running" /\ bridge.loop = "B"
  /\ policy = RunnerClose.policy

\* C18: of two observers that suspended on the same source, the one that
\* registered first is resumed first: the later one is never resumed while
\* the earlier one still waits.
C18_ResumeInRegistrationOrder ==
  \A o \in Observers : \A p \in Observers :
    (/\ obs[o].src = obs[p].src
     /\ 0 < obs[o].regNo /\ obs[o].regNo < obs[p].regNo
     /\ obs[p].pc = "done")
      => obs[o].pc = "done"

\* C18 witness: o2 suspended first and o1 second on the source; after the
\* transition o2 has been resumed and o1 is still to be resumed
C18_Witness ==
  /\ obs["o2"].regNo = 1 /\ obs["o1"].regNo = 2
  /\ obs["o1"].src = obs["o2"].src
  /\ obs["o2"].pc = "done" /\ obs["o1"].pc = "awaiting"
  /\ applied["s1"].by = "producer"

\* The positions of the closures of source s in the loop's queue
QueuedCalls(s) ==
  {i \in 1..Len(ready) : ready[i].kind = "action" /\ ready[i].src = s}

\* C19: a SetResult/SetCancelled/SetException call leaves the cell as it
\* was and, while the loop is open, returns None to its caller however many
\* calls came before it; as long as the cell is pending every call made so
\* far is still queued, and when a queued closure then makes the cell
\* terminal the outcome is that of the first call that was enqueued.
C19_CallsAreAsynchronous ==
  [][/\ nCalls' # nCalls =>
          /\ tcs' = tcs
          /\ loopState = "running" => lastCall'.outcome = Returned("None")
     /\ \A s \in Sources :
          /\ (loopState' = "running" /\ ~FutureDone(tcs'[s].future)) =>
               Cardinality(QueuedCalls(s)') = nCalls'
          /\ (/\ ~FutureDone(tcs[s].future) /\ FutureDone(tcs'[s].future)
              /\ nCancels' = nCancels) =>
               FutureResult(tcs'[s].future) = TransitionOutcome(firstCall[s])
    ]_vars

\* C19 witness: three calls were made on the pending source before the loop
\* ran any closure and each returned None; the loop has run the first,
\* SetResult("v1"), and the cell holds "v1" while the closures of the two
\* later calls, the next a SetException, are still queued
C19_Witness ==
  /\ nCalls = 3 /\ ~lastCall.afterTransition
  /\ lastCall.outcome = Returned("None")
  /\ applied["s1"] = [op |-> "SetResult", arg |-> "v1", by |-> "producer"]
  /\ FutureResult(tcs["s1"].future) = Returned("v1")
  /\ Cardinality(QueuedCalls("s1")) = 2
  /\ ready[1].kind = "action" /\ ready[1].op = "SetException"

\* C20: when the loop runs a closure that the terminal cell rejects, the
\* loop stays running, the rest of its queue, the observers and the cells
\* are untouched; and after a rejection every source that still has a closure
\* queued becomes terminal and every observer suspended on such a source is
\* resumed with the outcome of its own source.
C20_RejectionIsContained ==
  /\ [][unhandled' # unhandled =>
          /\ loopState' = "running"
          /\ ready' = Tail(ready)
          /\ obs' = obs /\ tcs' = tcs]_vars
  /\ \A s \in TwoSources :
       (unhandled # {} /\ QueuedCalls(s) # {})
         ~> FutureDone(tcs[s].future)
  /\ \A o \in Observers : \A s \in TwoSources :
       (/\ unhandled # {} /\ QueuedCalls(s) # {}
        /\ obs[o].pc = "awaiting" /\ obs[o].src = s)
         ~> (/\ obs[o].pc = "done"
             /\ obs[o].outcome = FutureResult(tcs[s].future)
             /\ obs[o].outcome = TransitionOutcome(applied[s]))

\* C20 witness: a redundant closure on s1 was rejected, then the closure of
\* s2 queued behind it ran, and an observer suspended on s2 was resumed with
\* the error that closure bound
C20_Witness ==
  /\ unhandled # {}
  /\ applied["s1"].op = "SetResult"
  /\ applied["s2"] = [op |-> "SetException", arg |-> "e1", by |-> "producer"]
  /\ obs["o2"].src = "s2" /\ obs["o2"].suspended
  /\ obs["o2"].pc = "done" /\ obs["o2"].outcome = Raised("e1")
  /\ nCalls = 3 /\ ~lastCall.afterTransition

====
